---- MODULE Spec2Model ----
(***************************************************************************)
(* Ceylon Bank RSA demonstration script (src/ceylon_bank_rsa.py).           *)
(*                                                                         *)
(* Python values are modelled as follows.                                  *)
(*   str    a sequence of Unicode code points                              *)
(*   bytes  a sequence of integers 0..255                                  *)
(*   dict   a function from field-name strings to values                   *)
(*   a call's outcome: Ok(v), the value returned, or Raise(exc, msg), the  *)
(*   exception that leaves the call                                        *)
(*                                                                         *)
(* The script delegates RSA and OAEP to PyCryptodome.  The library calls  *)
(* are modelled on byte strings of their real lengths (k = modulus bytes,  *)
(* hLen = 20 for the default SHA-1) with the EME-OAEP block layout of      *)
(* RFC 8017; the RSA trapdoor permutation and the mask generation, which   *)
(* no model checker can compute at 2048 bits, are represented by a keyed   *)
(* byte-wise permutation that only the paired key inverts.                 *)
(***************************************************************************)
EXTENDS Integers, Sequences, FiniteSets, TLC

(* State.  The module is either imported, and a caller calls its functions
   (mode "api") or test_rsa_implementation (mode "test"), or run as a script,
   and main runs (mode "main"). *)

VARIABLES
    mode,           \* "api", "test" or "main"
    keys,           \* api: the key pairs the caller got from generate_rsa_keys
    pool,           \* api: the encrypt_message calls that returned a ciphertext
    last,           \* api: the latest call and its outcome
    held,           \* api: the dict the caller keeps from its first lookup
    first_failure,  \* api: the outcome of the first decrypt_message that raised
    ncalls,         \* api: calls made
    pc,             \* test, main: the next step
    idx,            \* main: iterations of the loop started
    frame,          \* test_rsa_implementation's locals
    verdicts,       \* the VERIFICATION lines printed
    steps,          \* the steps taken, as << key size, step >>
    banner,         \* main printed "All RSA Tests Completed Successfully!"
    raised          \* the exception that ended the run

----------------------------------------------------------------------------
(* Outcomes of a call *)

NoValue == << >>

Ok(r) == [ok |-> TRUE, exc |-> "", msg |-> "", val |-> r]

Raise(e, m) == [ok |-> FALSE, exc |-> e, msg |-> m, val |-> NoValue]

----------------------------------------------------------------------------
(* Sequence helpers.  A sequence built element by element is concatenated
   with the empty sequence so that TLC holds it as a tuple. *)

Indices(n) == [i \in 1..n |-> i] \o << >>

Repeat(c, n) == [i \in 1..n |-> c] \o << >>

RECURSIVE SumRange(_, _, _)
(* The sum of a[lo..hi], by halves. *)
SumRange(a, lo, hi) ==
    IF lo > hi THEN 0
    ELSE IF lo = hi THEN a[lo]
    ELSE LET mid == (lo + hi) \div 2
         IN  SumRange(a, lo, mid) + SumRange(a, mid + 1, hi)

RECURSIVE Flatten(_)
(* Concatenation of a sequence of sequences, by halves. *)
Flatten(ss) ==
    IF Len(ss) = 0 THEN << >>
    ELSE IF Len(ss) = 1 THEN ss[1]
    ELSE LET h == Len(ss) \div 2
         IN  Flatten(SubSeq(ss, 1, h)) \o Flatten(SubSeq(ss, h + 1, Len(ss)))

----------------------------------------------------------------------------
(* str.encode('utf-8') and bytes.decode('utf-8') *)

IsSurrogate(c) == c >= 55296 /\ c <= 57343

Utf8Char(c) ==
    IF c < 128 THEN << c >>
    ELSE IF c < 2048 THEN << 192 + (c \div 64), 128 + (c % 64) >>
    ELSE IF c < 65536
         THEN << 224 + (c \div 4096), 128 + ((c \div 64) % 64), 128 + (c % 64) >>
    ELSE << 240 + (c \div 262144), 128 + ((c \div 4096) % 64),
            128 + ((c \div 64) % 64), 128 + (c % 64) >>

str_encode(s) ==
    IF \E i \in 1..Len(s) : IsSurrogate(s[i])
    THEN Raise("UnicodeEncodeError", "surrogates not allowed")
    ELSE Ok(Flatten([i \in 1..Len(s) |-> Utf8Char(s[i])]))

IsCont(b) == b >= 128 /\ b < 192

(* Number of bytes the sequence started by lead byte b has; 0: no lead byte. *)
Utf8Width(b) ==
    IF b < 128 THEN 1
    ELSE IF b >= 194 /\ b < 224 THEN 2
    ELSE IF b >= 224 /\ b < 240 THEN 3
    ELSE IF b >= 240 /\ b < 245 THEN 4
    ELSE 0

(* The sequence starting at lead position i is well formed: the right number
   of continuation bytes, then a lead byte or the end; no overlong form, no
   surrogate, nothing above U+10FFFF. *)
Utf8WellFormedAt(b, i) ==
    LET w == Utf8Width(b[i])
    IN  /\ w > 0
        /\ i + w - 1 <= Len(b)
        /\ \A j \in (i + 1)..(i + w - 1) : IsCont(b[j])
        /\ (i + w <= Len(b)) => ~IsCont(b[i + w])
        /\ (b[i] = 224) => b[i + 1] >= 160
        /\ (b[i] = 237) => b[i + 1] < 160
        /\ (b[i] = 240) => b[i + 1] >= 144
        /\ (b[i] = 244) => b[i + 1] < 144

Utf8CodePoint(b, i) ==
    LET w == Utf8Width(b[i])
    IN  IF w = 1 THEN b[i]
        ELSE IF w = 2 THEN (b[i] - 192) * 64 + (b[i + 1] - 128)
        ELSE IF w = 3
             THEN (b[i] - 224) * 4096 + (b[i + 1] - 128) * 64 + (b[i + 2] - 128)
        ELSE (b[i] - 240) * 262144 + (b[i + 1] - 128) * 4096
             + (b[i + 2] - 128) * 64 + (b[i + 3] - 128)

bytes_decode(b) ==
    LET IsLead(i) == ~IsCont(b[i])
        leads == SelectSeq(Indices(Len(b)), IsLead)
    IN  IF /\ (Len(b) > 0 => ~IsCont(b[1]))
           /\ \A j \in 1..Len(leads) : Utf8WellFormedAt(b, leads[j])
        THEN Ok([j \in 1..Len(leads) |-> Utf8CodePoint(b, leads[j])] \o << >>)
        ELSE Raise("UnicodeDecodeError", "'utf-8' codec can't decode")

----------------------------------------------------------------------------
(* base64.b64encode and base64.b64decode (binascii, non-strict mode).
   Characters are ASCII codes. *)

B64Alphabet ==
    [i \in 1..64 |-> IF i <= 26 THEN 64 + i
                     ELSE IF i <= 52 THEN 70 + i
                     ELSE IF i <= 62 THEN i - 5
                     ELSE IF i = 63 THEN 43 ELSE 47]

B64Pad == 61

(* binascii's table_a2b_base64: the sextet of a character, -1 for a character
   outside the alphabet *)
B64Index(c) ==
    IF c >= 65 /\ c <= 90 THEN c - 65
    ELSE IF c >= 97 /\ c <= 122 THEN c - 71
    ELSE IF c >= 48 /\ c <= 57 THEN c + 4
    ELSE IF c = 43 THEN 62
    ELSE IF c = 47 THEN 63
    ELSE -1

b64encode(b) ==
    LET n == Len(b)
        At(i) == IF i <= n THEN b[i] ELSE 0
        Char(j) ==
            LET g   == (j - 1) \div 4
                pos == (j - 1) % 4
                b0  == At(3 * g + 1)
                b1  == At(3 * g + 2)
                b2  == At(3 * g + 3)
                r   == n - 3 * g
            IN  IF pos = 0 THEN B64Alphabet[(b0 \div 4) + 1]
                ELSE IF pos = 1 THEN B64Alphabet[(b0 % 4) * 16 + (b1 \div 16) + 1]
                ELSE IF pos = 2
                     THEN IF r >= 2 THEN B64Alphabet[(b1 % 16) * 4 + (b2 \div 64) + 1]
                          ELSE B64Pad
                ELSE IF r >= 3 THEN B64Alphabet[(b2 % 64) + 1] ELSE B64Pad
    IN  [j \in 1..(4 * ((n + 2) \div 3)) |-> Char(j)] \o << >>

RECURSIVE B64Stop(_, _)
(* r: the text without the characters binascii skips; pads: the positions of
   '=' in r.  The number of data characters read when the scan meets the pad
   sequence that ends the input, or -1 when it reads to the end.  A '=' met
   with fewer than two characters of the current quad is skipped. *)
B64Stop(pads, j) ==
    IF j > Len(pads) THEN -1
    ELSE LET p == pads[j]
             q == (p - j) % 4
         IN  IF q = 3 THEN p - j
             ELSE IF q = 2 /\ j + 1 <= Len(pads) /\ pads[j + 1] = p + 1 THEN p - j
             ELSE B64Stop(pads, j + 1)

b64decode(s) ==
    IF \E i \in 1..Len(s) : s[i] >= 128
    THEN Raise("ValueError", "string argument should contain only ASCII characters")
    ELSE
    LET Kept(c)   == B64Index(c) >= 0 \/ c = B64Pad
        r         == SelectSeq(s, Kept)
        IsPadAt(i) == r[i] = B64Pad
        pads      == SelectSeq(Indices(Len(r)), IsPadAt)
        IsData(c) == c # B64Pad
        data      == SelectSeq(r, IsData)
        stop      == B64Stop(pads, 1)
        d         == IF stop >= 0 THEN stop ELSE Len(data)
        Sx(i)     == B64Index(data[i])
        Byte(i)   ==
            LET g   == (i - 1) \div 3
                pos == (i - 1) % 3
            IN  IF pos = 0 THEN Sx(4 * g + 1) * 4 + (Sx(4 * g + 2) \div 16)
                ELSE IF pos = 1
                     THEN (Sx(4 * g + 2) % 16) * 16 + (Sx(4 * g + 3) \div 4)
                ELSE (Sx(4 * g + 3) % 4) * 64 + Sx(4 * g + 4)
    IN  IF stop < 0 /\ d % 4 = 1
        THEN Raise("binascii.Error",
                   "Invalid base64-encoded string: number of data characters")
        ELSE IF stop < 0 /\ d % 4 # 0
        THEN Raise("binascii.Error", "Incorrect padding")
        ELSE Ok([i \in 1..((d * 6) \div 8) |-> Byte(i)] \o << >>)

----------------------------------------------------------------------------
(* Crypto.PublicKey.RSA: key objects and their PEM export *)

MinModulusBits == 1024

PublicExponent == 65537

(* RSA.generate(bits): tag stands for the primes the random source yields. *)
RSA_generate(bits, tag) ==
    IF bits < MinModulusBits
    THEN Raise("ValueError", "RSA modulus length must be >= 1024")
    ELSE Ok([bits |-> bits, e |-> PublicExponent, tag |-> tag, private |-> TRUE])

publickey(key) == [key EXCEPT !.private = FALSE]

export_key(key) ==
    [label |-> IF key.private THEN "RSA PRIVATE KEY" ELSE "PUBLIC KEY",
     bits |-> key.bits, e |-> key.e, tag |-> key.tag]

import_key(pem) ==
    [bits |-> pem.bits, e |-> pem.e, tag |-> pem.tag,
     private |-> (pem.label = "RSA PRIVATE KEY")]

(* Faulty variant: a modulus length one byte too long, which lets one more
   byte of plaintext in. *)
ModulusBytes_plus(key) == (key.bits + 7) \div 8 + 1

(* The modulus length in bytes: ceil_div(size(n), 8) *)
ModulusBytes(key) == (key.bits + 7) \div 8

(* The modulus has exactly key.bits bits, so its leading byte is at least 128. *)
ModulusTop(key) == 128 + key.tag

(* The RSA permutation of a k-byte block under the public key and its inverse
   under the private key; a block whose leading byte reaches the modulus's is
   no residue. *)
RSAEP(key, em) == [i \in 1..Len(em) |-> (em[i] + key.tag) % 256] \o << >>

(* Faulty variant: a private-key operation that does not depend on the key. *)
RSADP_unkeyed(key, ct) == [i \in 1..Len(ct) |-> (ct[i] - 1) % 256] \o << >>

RSADP(key, ct) == [i \in 1..Len(ct) |-> (ct[i] - key.tag) % 256] \o << >>

----------------------------------------------------------------------------
(* Crypto.Cipher.PKCS1_OAEP with its defaults: SHA-1, MGF1, empty label *)

hLen == 20

(* SHA-1 of the empty label *)
lHash ==
    << 218, 57, 163, 238, 94, 107, 75, 13, 50, 85,
       191, 239, 149, 96, 24, 144, 175, 216, 7, 9 >>

(* The mask a generator input yields (every byte of the input counts), and
   masking (the xor of RFC 8017) and unmasking with it *)
MGF(a) == (SumRange(a, 1, Len(a)) + a[1] + Len(a)) % 256

Masked(a, m) == [i \in 1..Len(a) |-> (a[i] + m) % 256] \o << >>

(* Faulty variant: unmasking that applies the mask a second time. *)
Unmasked_adds(a, m) == [i \in 1..Len(a) |-> (a[i] + m) % 256] \o << >>

Unmasked(a, m) == [i \in 1..Len(a) |-> (a[i] - m) % 256] \o << >>

(* Faulty variant: padding bytes that do not depend on the draw. *)
RandomSeed_fixed(s) == Repeat(0, hLen)

(* The hLen random bytes one call draws *)
RandomSeed(s) == Repeat(s, hLen)

OAEP_encrypt(key, message, seed) ==
    LET k      == ModulusBytes(key)
        mLen   == Len(message)
        ps_len == k - mLen - 2 * hLen - 2
    IN  IF ps_len < 0 THEN Raise("ValueError", "Plaintext is too long.")
        ELSE LET db         == lHash \o Repeat(0, ps_len) \o << 1 >> \o message
                 maskedDB   == Masked(db, MGF(seed))
                 maskedSeed == Masked(seed, MGF(maskedDB))
                 em         == << 0 >> \o maskedSeed \o maskedDB
             IN  Ok(RSAEP(key, em))

OAEP_decrypt(key, ciphertext) ==
    LET k == ModulusBytes(key)
    IN  IF Len(ciphertext) # k \/ k < hLen + 2
        THEN Raise("ValueError", "Ciphertext with incorrect length.")
        ELSE IF ciphertext[1] >= ModulusTop(key)
        THEN Raise("ValueError", "Ciphertext too large")
        ELSE IF ~key.private
        THEN Raise("TypeError", "This is not a private key")
        ELSE
        LET em         == RSADP(key, ciphertext)
            y          == em[1]
            maskedSeed == SubSeq(em, 2, hLen + 1)
            maskedDB   == SubSeq(em, hLen + 2, k)
            seed       == Unmasked(maskedSeed, MGF(maskedDB))
            db         == Unmasked(maskedDB, MGF(seed))
            IsOneAt(i) == i > hLen /\ db[i] = 1
            ones       == SelectSeq(Indices(Len(db)), IsOneAt)
            one_pos    == IF Len(ones) = 0 THEN hLen ELSE ones[1]
            invalid    == \/ y # 0
                          \/ Len(ones) = 0
                          \/ SubSeq(db, 1, hLen) # lHash
                          \/ \E i \in (hLen + 1)..(one_pos - 1) : db[i] # 0
        IN  IF invalid THEN Raise("ValueError", "Incorrect decryption.")
            ELSE Ok(SubSeq(db, one_pos + 1, Len(db)))

----------------------------------------------------------------------------
(* The script's functions *)

generate_rsa_keys(key_size, tag) ==
    LET key == RSA_generate(key_size, tag)
    IN  IF ~key.ok THEN key
        ELSE Ok([private_key |-> export_key(key.val),
                 public_key  |-> export_key(publickey(key.val)),
                 key         |-> key.val])

encrypt_message(message, public_key, seed) ==
    LET rsa_key == import_key(public_key)
        encoded == str_encode(message)
    IN  IF ~encoded.ok THEN encoded
        ELSE LET encrypted == OAEP_encrypt(rsa_key, encoded.val, RandomSeed(seed))
             IN  IF ~encrypted.ok THEN encrypted
                 ELSE bytes_decode(b64encode(encrypted.val))

decrypt_message(encrypted_message, private_key) ==
    LET rsa_key         == import_key(private_key)
        encrypted_bytes == b64decode(encrypted_message)
    IN  IF ~encrypted_bytes.ok THEN encrypted_bytes
        ELSE LET decrypted == OAEP_decrypt(rsa_key, encrypted_bytes.val)
             IN  IF ~decrypted.ok THEN decrypted
                 ELSE bytes_decode(decrypted.val)

EmptyDict == [f \in {} |-> 0]

dict_get(d, k, default) == IF k \in DOMAIN d THEN d[k] ELSE default

(* The dict literal get_security_level builds on every call *)
security_info ==
    [sz \in {2048, 3072, 4096} |->
        IF sz = 2048
        THEN [security_bits |-> 112, level |-> "Standard Security",
              nist_approval |-> "Through 2030",
              use_case |-> "Routine operations and standard transactions"]
        ELSE IF sz = 3072
        THEN [security_bits |-> 128, level |-> "High Security",
              nist_approval |-> "Beyond 2030",
              use_case |-> "High-value transactions and long-term protection"]
        ELSE [security_bits |-> 152, level |-> "Maximum Security",
              nist_approval |-> "Maximum recommended",
              use_case |-> "Critical infrastructure and executive communications"]]

(* Faulty variants: a lookup that falls back to the 2048 tier, and one that
   hands out again the dict the caller already holds. *)
get_security_level_default(key_size) ==
    dict_get(security_info, key_size, security_info[2048])

get_security_level_shared(key_size) ==
    IF held.size = key_size THEN held.info
    ELSE dict_get(security_info, key_size, EmptyDict)

get_security_level(key_size) == dict_get(security_info, key_size, EmptyDict)

(* Faulty variant: a display that prints nothing of the tier. *)
display_security_info_lenient(key_size) == Ok(get_security_level(key_size))

(* The box is printed line by line; the first subscript of a missing field
   raises KeyError. *)
display_security_info(key_size) ==
    LET info == get_security_level(key_size)
    IN  IF "security_bits" \notin DOMAIN info THEN Raise("KeyError", "security_bits")
        ELSE IF "level" \notin DOMAIN info THEN Raise("KeyError", "level")
        ELSE IF "nist_approval" \notin DOMAIN info THEN Raise("KeyError", "nist_approval")
        ELSE IF "use_case" \notin DOMAIN info THEN Raise("KeyError", "use_case")
        ELSE Ok(info)

(* The test message of test_rsa_implementation:
   "Ceylon Bank Confidential Transaction: Transfer $50,000 to Account #12345678" *)
plaintext ==
    << 67, 101, 121, 108, 111, 110, 32, 66, 97, 110, 107, 32, 67, 111, 110,
       102, 105, 100, 101, 110, 116, 105, 97, 108, 32, 84, 114, 97, 110, 115,
       97, 99, 116, 105, 111, 110, 58, 32, 84, 114, 97, 110, 115, 102, 101,
       114, 32, 36, 53, 48, 44, 48, 48, 48, 32, 116, 111, 32, 65, 99,
       99, 111, 117, 110, 116, 32, 35, 49, 50, 51, 52, 53, 54, 55, 56 >>

(* Faulty variant: the list in another order. *)
key_sizes_swapped == << 3072, 2048, 4096 >>

(* The key sizes main tests, in order *)
key_sizes == << 2048, 3072, 4096 >>

(* The comparison of test_rsa_implementation *)
verification(original, decrypted_text) ==
    IF original = decrypted_text THEN "SUCCESS" ELSE "FAILURE"

----------------------------------------------------------------------------
(* The inputs the model draws *)

(* Sizes a caller asks for: the three documented ones, 1024 and 512 *)
KeySizes == {512, 1024, 2048, 3072, 4096}

(* What the random source yields: the primes of a key pair, the seed of one
   encryption *)
KeyTags == {1, 2}

Seeds == {1, 2}

(* The longest message in bytes the caller aims at for a modulus size *)
Target(bits) == (bits \div 8) - 42

(* Messages by name.  "over" is ASCII and Target + 1 characters long;
   "wide_fill" and "wide_over" end in characters that take two, three and four
   bytes: the first is Target bytes in Target - 6 characters, the second
   Target + 1 bytes in Target - 5 characters. *)
MessageNames == {"sample", "over", "wide_fill", "wide_over"}

Message(name, bits) ==
    IF name = "sample" THEN plaintext
    ELSE IF name = "over" THEN Repeat(65, Target(bits) + 1)
    ELSE IF name = "wide_fill" THEN Repeat(65, Target(bits) - 9) \o << 233, 8364, 128274 >>
    ELSE Repeat(65, Target(bits) - 8) \o << 233, 8364, 128274 >>

(* What can happen to a transport text on its way to decrypt_message *)
Damages == {"intact", "truncated", "short", "flipped", "high", "nonascii"}

Damaged(text, how) ==
    IF how = "intact" \/ Len(text) < 8 THEN text
    ELSE IF how = "truncated" THEN SubSeq(text, 1, Len(text) - 1)
    ELSE IF how = "short" THEN SubSeq(text, 1, Len(text) - 4)
    ELSE IF how = "flipped"
         THEN [text EXCEPT ![Len(text) \div 2] = IF @ = 65 THEN 66 ELSE 65]
    ELSE IF how = "high" THEN [text EXCEPT ![1] = 47]
    ELSE [text EXCEPT ![1] = 233]

(* The damages the model applies to the ciphertext of a message *)
DamagesOf(name) == IF name = "sample" THEN Damages ELSE {"intact"}

(* The key pairs generate_rsa_keys can return *)
KeyPairs ==
    {generate_rsa_keys(sz, t).val :
        sz \in {z \in KeySizes : generate_rsa_keys(z, 1).ok}, t \in KeyTags}

(* encrypt_message and decrypt_message on the inputs the model draws, each
   evaluated once *)
Encrypted ==
    [a \in {<< Message(name, kp.key.bits), kp.public_key, sd >> :
               kp \in KeyPairs, name \in MessageNames, sd \in Seeds}
        |-> encrypt_message(a[1], a[2], a[3])] @@ << >>

(* The calls of decrypt_message the model makes: a damaged text is tried
   under the keys of the size it was made for, an intact one under every key. *)
DecryptCalls ==
    UNION {LET text == Encrypted[<< Message(name, kp.key.bits), kp.public_key, sd >>].val
           IN  UNION {{<< Damaged(text, how), other.private_key >> :
                          other \in {o \in KeyPairs :
                                        how = "intact" \/ o.key.bits = kp.key.bits}} :
                      how \in DamagesOf(name)} :
           kp \in KeyPairs, name \in MessageNames, sd \in Seeds}

Decrypted == [a \in DecryptCalls |-> decrypt_message(a[1], a[2])] @@ << >>

----------------------------------------------------------------------------
vars == << mode, keys, pool, last, held, first_failure, ncalls,
           pc, idx, frame, verdicts, steps, banner, raised >>

apiVars == << keys, pool, last, held, first_failure, ncalls >>

progVars == << pc, idx, frame, verdicts, steps, banner, raised >>

(* Calls one caller makes in a session *)
MaxCalls == 4

NoKeys == [private_key |-> NoValue, public_key |-> NoValue, key |-> NoValue]

NoText == [kp |-> NoKeys, name |-> "", seed |-> 0]

NoCall ==
    [op |-> "", size |-> 0, kp |-> NoKeys, ct |-> NoText, how |-> "", out |-> Ok(NoValue)]

NoFailure == Ok(NoValue)

NewFrame(sz) ==
    [key_size |-> sz, private_key |-> NoValue, public_key |-> NoValue,
     ciphertext |-> NoValue, decrypted_text |-> NoValue]

(* The message of an encrypt_message call of the pool, and the transport text
   the call returned *)
MessageOf(c) == Message(c.name, c.kp.key.bits)

Ciphertext(c) == Encrypted[<< MessageOf(c), c.kp.public_key, c.seed >>].val

Init ==
    /\ mode \in {"api", "test", "main"}
    /\ keys = {}
    /\ pool = {}
    /\ last = NoCall
    /\ held = [size |-> 0, info |-> EmptyDict]
    /\ first_failure = NoFailure
    /\ ncalls = 0
    /\ idx = 0
    /\ verdicts = << >>
    /\ steps = << >>
    /\ banner = FALSE
    /\ raised = NoFailure
    /\ IF mode = "test"
       THEN pc = "display" /\ frame \in {NewFrame(sz) : sz \in KeySizes}
       ELSE pc = (IF mode = "main" THEN "loop" ELSE "") /\ frame = NewFrame(0)

----------------------------------------------------------------------------
(* A caller of the imported module *)

CallGenerate ==
    /\ mode = "api" /\ ncalls < MaxCalls
    /\ \E sz \in KeySizes, t \in KeyTags :
        LET out == generate_rsa_keys(sz, t)
        IN  /\ keys' = IF out.ok THEN keys \cup {out.val} ELSE keys
            /\ last' = [NoCall EXCEPT !.op = "generate", !.size = sz, !.out = out]
    /\ ncalls' = ncalls + 1
    /\ UNCHANGED << mode, pool, held, first_failure, progVars >>

CallEncrypt ==
    /\ mode = "api" /\ ncalls < MaxCalls
    /\ \E kp \in keys, name \in MessageNames, sd \in Seeds :
        LET c == [kp |-> kp, name |-> name, seed |-> sd]
            out == Encrypted[<< MessageOf(c), kp.public_key, sd >>]
        IN  /\ pool' = IF out.ok THEN pool \cup {c} ELSE pool
            /\ last' = [NoCall EXCEPT !.op = "encrypt", !.kp = kp, !.ct = c, !.out = out]
    /\ ncalls' = ncalls + 1
    /\ UNCHANGED << mode, keys, held, first_failure, progVars >>

CallDecrypt ==
    /\ mode = "api" /\ ncalls < MaxCalls
    /\ \E c \in pool, how \in Damages, kp \in keys :
        /\ how \in DamagesOf(c.name)
        /\ how = "intact" \/ kp.key.bits = c.kp.key.bits
        /\ LET out == Decrypted[<< Damaged(Ciphertext(c), how), kp.private_key >>]
           IN  /\ last' = [NoCall EXCEPT !.op = "decrypt", !.kp = kp, !.ct = c,
                                         !.how = how, !.out = out]
               /\ first_failure' = IF ~out.ok /\ first_failure = NoFailure
                                   THEN out ELSE first_failure
    /\ ncalls' = ncalls + 1
    /\ UNCHANGED << mode, keys, pool, held, progVars >>

CallLookup ==
    /\ mode = "api" /\ ncalls < MaxCalls
    /\ \E sz \in KeySizes :
        LET info == get_security_level(sz)
        IN  /\ held' = IF held.size = 0 THEN [size |-> sz, info |-> info] ELSE held
            /\ last' = [NoCall EXCEPT !.op = "lookup", !.size = sz, !.out = Ok(info)]
    /\ ncalls' = ncalls + 1
    /\ UNCHANGED << mode, keys, pool, first_failure, progVars >>

(* The caller writes a field of the dict it keeps. *)
CallerMutates ==
    /\ mode = "api" /\ held.size # 0
    /\ dict_get(held.info, "security_bits", 112) # 0
    /\ held' = [held EXCEPT !.info = ("security_bits" :> 0) @@ @]
    /\ UNCHANGED << mode, keys, pool, last, first_failure, ncalls, progVars >>

----------------------------------------------------------------------------
(* test_rsa_implementation and main *)

Step(name) == Append(steps, << frame.key_size, name >>)

Test_Display ==
    /\ mode # "api" /\ pc = "display"
    /\ LET shown == display_security_info(frame.key_size)
       IN  /\ pc' = IF shown.ok THEN "generate" ELSE "raised"
           /\ raised' = IF shown.ok THEN raised ELSE shown
    /\ steps' = Step("display")
    /\ UNCHANGED << mode, apiVars, idx, frame, verdicts, banner >>

Test_Generate ==
    /\ mode # "api" /\ pc = "generate"
    /\ \E t \in KeyTags :
        LET got == generate_rsa_keys(frame.key_size, t)
        IN  /\ pc' = IF got.ok THEN "encrypt" ELSE "raised"
            /\ raised' = IF got.ok THEN raised ELSE got
            /\ frame' = IF got.ok
                        THEN [frame EXCEPT !.private_key = got.val.private_key,
                                           !.public_key = got.val.public_key]
                        ELSE frame
    /\ steps' = Step("generate")
    /\ UNCHANGED << mode, apiVars, idx, verdicts, banner >>

Test_Encrypt ==
    /\ mode # "api" /\ pc = "encrypt"
    /\ \E sd \in Seeds :
        LET got == Encrypted[<< plaintext, frame.public_key, sd >>]
        IN  /\ pc' = IF got.ok THEN "decrypt" ELSE "raised"
            /\ raised' = IF got.ok THEN raised ELSE got
            /\ frame' = IF got.ok THEN [frame EXCEPT !.ciphertext = got.val] ELSE frame
    /\ steps' = Step("encrypt")
    /\ UNCHANGED << mode, apiVars, idx, verdicts, banner >>

Test_Decrypt ==
    /\ mode # "api" /\ pc = "decrypt"
    /\ LET got == Decrypted[<< frame.ciphertext, frame.private_key >>]
       IN  /\ pc' = IF got.ok THEN "verify" ELSE "raised"
           /\ raised' = IF got.ok THEN raised ELSE got
           /\ frame' = IF got.ok THEN [frame EXCEPT !.decrypted_text = got.val] ELSE frame
    /\ steps' = Step("decrypt")
    /\ UNCHANGED << mode, apiVars, idx, verdicts, banner >>

Test_Verify ==
    /\ mode # "api" /\ pc = "verify"
    /\ verdicts' = Append(verdicts, verification(plaintext, frame.decrypted_text))
    /\ pc' = IF mode = "main" THEN "loop" ELSE "returned"
    /\ steps' = Step("verify")
    /\ UNCHANGED << mode, apiVars, idx, frame, banner, raised >>

(* for key_size in key_sizes: test_rsa_implementation(key_size) *)
Main_Loop ==
    /\ mode = "main" /\ pc = "loop" /\ idx < Len(key_sizes)
    /\ idx' = idx + 1
    /\ frame' = NewFrame(key_sizes[idx + 1])
    /\ pc' = "display"
    /\ UNCHANGED << mode, apiVars, verdicts, steps, banner, raised >>

Main_Banner ==
    /\ mode = "main" /\ pc = "loop" /\ idx = Len(key_sizes)
    /\ banner' = TRUE
    /\ pc' = "exit"
    /\ UNCHANGED << mode, apiVars, idx, frame, verdicts, steps, raised >>

Next ==
    \/ CallGenerate
    \/ CallEncrypt
    \/ CallDecrypt
    \/ CallLookup
    \/ CallerMutates
    \/ Test_Display
    \/ Test_Generate
    \/ Test_Encrypt
    \/ Test_Decrypt
    \/ Test_Verify
    \/ Main_Loop
    \/ Main_Banner

Spec == Init /\ [][Next]_vars

----------------------------------------------------------------------------
(* Properties *)

(* The UTF-8 length of each message the caller encrypts *)
EncodedLength ==
    [a \in MessageNames \X {kp.key.bits : kp \in KeyPairs}
        |-> Len(str_encode(Message(a[1], a[2])).val)] @@ << >>

(* C1: for a key pair of 2048, 3072 or 4096 bits, decrypt_message under the
   private key of the pair, applied to what encrypt_message returned under its
   public key, returns exactly the message; test_rsa_implementation for these
   sizes never raises and only ever prints SUCCESS. *)
C1_RoundTrip ==
    /\ (/\ last.op = "decrypt" /\ last.how = "intact"
        /\ last.kp = last.ct.kp
        /\ last.kp.key.bits \in {2048, 3072, 4096})
            => last.out = Ok(MessageOf(last.ct))
    /\ \A i \in 1..Len(verdicts) : verdicts[i] = "SUCCESS"
    /\ (mode \in {"test", "main"} /\ frame.key_size \in {2048, 3072, 4096})
            => pc # "raised"

C1_Witness ==
    /\ last.op = "decrypt" /\ last.how = "intact"
    /\ last.kp = last.ct.kp
    /\ last.kp.key.bits = 4096
    /\ last.ct.name = "wide_fill"
    /\ last.out.ok

(* C2: generate_rsa_keys returns a key pair exactly for the sizes 2048, 3072
   and 4096, with a modulus of the requested bit length, and raises without
   returning a pair for every other size. *)
C2_SizeValidation ==
    last.op = "generate" =>
        IF last.size \in {2048, 3072, 4096}
        THEN last.out.ok /\ last.out.val.key.bits = last.size
        ELSE ~last.out.ok /\ last.out.val = NoValue

(* C3: decrypt_message of a ciphertext made under the public key of one
   generated pair, under the private key of another pair, raises (ValueError
   from the cipher) and returns no plaintext. *)
C3_CrossKeyRejected ==
    (last.op = "decrypt" /\ last.how = "intact" /\ last.kp # last.ct.kp)
        => /\ ~last.out.ok
           /\ last.out.exc = "ValueError"
           /\ last.out.val = NoValue

C3_Witness ==
    /\ last.op = "decrypt" /\ last.how = "intact"
    /\ last.kp # last.ct.kp
    /\ last.kp.key.bits = last.ct.kp.key.bits
    /\ ~last.out.ok

(* C4: encrypt_message returns a ciphertext when the UTF-8 length of the
   message is at most modulus bytes - 2 * 20 - 2 (the hash is SHA-1) and raises
   ValueError "Plaintext is too long.", returning nothing, when it is longer;
   the messages drawn are exactly at the limit and one byte above it, one of
   them with fewer characters than the limit. *)
C4_CapacityBoundary ==
    last.op = "encrypt" =>
        LET capacity == last.kp.key.bits \div 8 - 2 * hLen - 2
            mLen     == EncodedLength[<< last.ct.name, last.kp.key.bits >>]
        IN  IF mLen <= capacity
            THEN last.out.ok /\ last.ct \in pool
            ELSE /\ mLen = capacity + 1
                 /\ last.out = Raise("ValueError", "Plaintext is too long.")
                 /\ last.ct \notin pool

C4_Witness ==
    /\ last.op = "encrypt" /\ last.ct.name = "wide_over"
    /\ ~last.out.ok
    /\ Len(MessageOf(last.ct)) <= last.kp.key.bits \div 8 - 2 * hLen - 2
    /\ \E c \in pool :
        /\ c.kp = last.kp /\ c.name = "wide_fill"
        /\ EncodedLength[<< c.name, c.kp.key.bits >>] = c.kp.key.bits \div 8 - 2 * hLen - 2

(* C5: get_security_level returns a tier of 112 security bits for 2048, 128
   for 3072 and 152 for 4096; for any other size it returns the empty dict,
   which has no field and equals no tier. *)
C5_PolicyLookup ==
    last.op = "lookup" =>
        LET info == last.out.val
        IN  IF last.size = 2048 THEN info.security_bits = 112
            ELSE IF last.size = 3072 THEN info.security_bits = 128
            ELSE IF last.size = 4096 THEN info.security_bits = 152
            ELSE /\ DOMAIN info = {}
                 /\ \A sz \in DOMAIN security_info : info # security_info[sz]

C5_Witness ==
    /\ last.op = "lookup" /\ last.size = 1024
    /\ DOMAIN last.out.val = {}
    /\ held.size = 2048 /\ held.info.security_bits = 112

(* C6: every decrypt_message that raises raises the same kind of exception
   as the first one that raised. *)
C6_SingleFailureKind ==
    (last.op = "decrypt" /\ ~last.out.ok) => last.out.exc = first_failure.exc

(* C7, as stated: an encrypt_message call returns a ciphertext different from
   every ciphertext an earlier call returned for the same message and key. *)
C7_AlwaysDistinct ==
    [][(ncalls' # ncalls /\ last'.op = "encrypt" /\ last'.out.ok)
          => \A c \in pool :
                (c.kp = last'.ct.kp /\ c.name = last'.ct.name)
                    => Ciphertext(c) # last'.out.val]_vars

(* C7, amended: two encrypt_message calls for the same message and key that
   drew different padding bytes returned different ciphertexts, and every
   ciphertext returned decrypts to its message under the matching key. *)
C7_DistinctDrawsDistinctCiphertexts ==
    \A c \in pool :
        /\ Decrypted[<< Ciphertext(c), c.kp.private_key >>] = Ok(MessageOf(c))
        /\ \A d \in pool :
            (d.kp = c.kp /\ d.name = c.name /\ d.seed # c.seed)
                => Ciphertext(d) # Ciphertext(c)

C7_Witness ==
    \E c \in pool, d \in pool :
        /\ d.kp = c.kp /\ d.name = c.name /\ d.seed # c.seed
        /\ c.kp.key.bits = 2048

(* C8: no step removes or alters a key pair or a ciphertext the caller
   already has, and every get_security_level call returns what the table
   literal holds for the size, whatever the caller did to a dict it got
   earlier. *)
C8_Stateless ==
    [][/\ keys \subseteq keys'
       /\ pool \subseteq pool'
       /\ last'.op = "lookup"
            => last'.out.val = dict_get(security_info, last'.size, EmptyDict)]_vars

C8_Witness ==
    /\ last.op = "lookup" /\ last.size = 2048
    /\ held.size = 2048
    /\ held.info # last.out.val
    /\ keys # {}

(* C9: main's steps are always a prefix of display, generate, encrypt,
   decrypt, verify for 2048, then for 3072, then for 4096; the banner is
   printed exactly when main has left the loop, which takes three returned
   runs and no exception; a verdict is printed for each returned run whatever
   it says. *)
C9_MainOrder ==
    mode = "main" =>
        LET run(sz)  == << << sz, "display" >>, << sz, "generate" >>, << sz, "encrypt" >>,
                           << sz, "decrypt" >>, << sz, "verify" >> >>
            expected == run(2048) \o run(3072) \o run(4096)
            returned == Cardinality({i \in 1..Len(steps) : steps[i][2] = "verify"})
        IN  /\ Len(steps) <= Len(expected)
            /\ steps = SubSeq(expected, 1, Len(steps))
            /\ banner <=> pc = "exit"
            /\ banner => returned = 3 /\ raised = NoFailure
            /\ (returned = 3 /\ pc # "loop") => banner
            /\ Len(verdicts) = returned
            /\ pc = "raised" => ~banner /\ raised # NoFailure

C9_Witness ==
    mode = "main" /\ banner /\ Len(steps) = 15 /\ Len(verdicts) = 3

(* C10: test_rsa_implementation for a size outside 2048, 3072, 4096 takes the
   display step only and ends there with KeyError, although
   generate_rsa_keys called directly for 1024 returns a key pair. *)
C10_NoTierNoRun ==
    /\ (mode = "test" /\ frame.key_size \notin {2048, 3072, 4096})
            => /\ pc \in {"display", "raised"}
               /\ \A i \in 1..Len(steps) : steps[i][2] = "display"
               /\ pc = "raised" => raised.exc = "KeyError" /\ Len(steps) = 1
    /\ (last.op = "generate" /\ last.size = 1024) => last.out.ok

C10_Witness ==
    mode = "test" /\ frame.key_size = 1024 /\ pc = "raised" /\ raised.exc = "KeyError"

====
